---- MODULE Spec2Model ----
(***************************************************************************)
(* State-machine model of the HyperSerp search front end.                  *)
(*                                                                         *)
(*   frontend/src/api.js   searchQuery: one GET per search, every failure  *)
(*                         mapped to the empty list                        *)
(*   App component         view state {query, results, loading,           *)
(*                         hasSearched}, handleSearch, the Escape keydown  *)
(*                         listener and the three render conditions        *)
(*                                                                         *)
(* JavaScript runs one task at a time.  A task is a user event (change,    *)
(* keydown, submit) or the settling of a network promise; the              *)
(* continuations queued by a task (microtasks) run before the next task.   *)
(* React 18 (createRoot) batches the state updates made inside one         *)
(* synchronous stretch of code, so the state after each stretch is what    *)
(* gets rendered.  Each action below is one such stretch.                  *)
(***************************************************************************)
EXTENDS Naturals, Sequences, FiniteSets

\* ---------------------------------------------------------------- bounds
MaxCalls == 2    \* handleSearch invocations that pass the blank check

\* ------------------------------------------------------------- strings
\* A string is a sequence of characters.  LoneSurrogate stands for an
\* unpaired UTF-16 surrogate, the one input encodeURIComponent rejects.
LoneSurrogate == "D800"
Whitespace == {" "}

\* the texts the input takes: empty, whitespace only, padded on either side,
\* plain, with a reserved character, and not encodable
Strings ==
  { <<>>, <<" ">>, <<" ", " ">>, <<"a">>, <<" ", "a">>, <<"a", " ">>,
    <<"a", "&">>, <<LoneSurrogate>> }

RECURSIVE trimStart(_)
trimStart(s) ==
  IF s # <<>> /\ Head(s) \in Whitespace THEN trimStart(Tail(s)) ELSE s

RECURSIVE trimEnd(_)
trimEnd(s) ==
  IF s # <<>> /\ s[Len(s)] \in Whitespace
  THEN trimEnd(SubSeq(s, 1, Len(s) - 1)) ELSE s

\* String.prototype.trim
trim(s) == trimEnd(trimStart(s))

\* variant: the check without trim()
IsBlank_NoTrim(s) == s = <<>>

\* !query.trim() : the empty string is the only falsy string
IsBlank(s) == trim(s) = <<>>

\* encodeURIComponent throws URIError on a lone surrogate
EncodeThrows(s) == \E i \in 1..Len(s) : s[i] = LoneSurrogate

\* escapes everything but unreserved characters, as UTF-8 percent codes
EncodeChar(c) ==
  IF c = " " THEN <<"%", "2", "0">>
  ELSE IF c = "&" THEN <<"%", "2", "6">>
  ELSE <<c>>

RECURSIVE encodeURIComponent(_)
encodeURIComponent(s) ==
  IF s = <<>> THEN <<>> ELSE EncodeChar(Head(s)) \o encodeURIComponent(Tail(s))

\* `${API_BASE}/search?q=${encodeURIComponent(query)}`
RequestUrl(q) == <<"/search?q=">> \o encodeURIComponent(q)

\* ----------------------------------------------------------- JS values
\* A JavaScript value is a record [t, v]: its type tag and, for an array or
\* a string, its elements.
Items == {"A", "B"}
Undefined == [t |-> "undefined", v |-> <<>>]
Null == [t |-> "null", v |-> <<>>]
Arr(s) == [t |-> "array", v |-> s]
Str(s) == [t |-> "string", v |-> s]
EmptyArray == Arr(<<>>)

Arrays == {EmptyArray} \cup {Arr(<<x>>) : x \in Items}

\* what the "results" member of a parsed body can be
ResultsFields == Arrays \cup {Undefined, Null, Str(<<"x">>)}

Truthy(x) == x.t = "array" \/ (x.t = "string" /\ x.v # <<>>)

IsArray(x) == x.t = "array"

\* parsed bodies: the JSON value null, or an object with its "results" member
JsonBodies == [t : {"null"}, results : {Undefined}]
                \cup [t : {"object"}, results : ResultsFields]

\* res.json() either rejects (SyntaxError) or yields a parsed body
ParseFailure == [t |-> "SyntaxError", results |-> Undefined]
BodyOutcomes == {ParseFailure} \cup JsonBodies

Statuses == {200, 404, 500}

\* Response.ok
Ok(status) == status >= 200 /\ status <= 299


\* ---------------------------------------------------------------- state
VARIABLES
  query,        \* useState("")    : text of the input
  results,      \* useState([])    : the elements of the result array
  loading,      \* useState(false)
  hasSearched,  \* useState(false)
  calls,        \* the handleSearch invocations that called searchQuery, in
                \* submission order; each is suspended at an await or finished
  lastDone,     \* index in calls of the invocation that resumed last, 0 if none
  lastData,     \* what searchQuery returned to that invocation
  event         \* the task or continuation that ran last

vars == <<query, results, loading, hasSearched, calls, lastDone, lastData, event>>

\* Positions of one invocation:
\*   "fetch"     searchQuery awaits fetch(...)
\*   "json"      searchQuery awaits res.json()
\*   "resolved"  searchQuery returned; handleSearch's continuation is queued
\*   "rejected"  searchQuery threw;    handleSearch's continuation is queued
\*   "done"      handleSearch ran lines 28-29
\*   "aborted"   handleSearch ended by the exception of its await
\*   "hung"      the network never answers
Awaiting == {"fetch", "json"}
Queued == {"resolved", "rejected"}
Causes == {"none", "URIError", "network", "status", "parse", "TypeError"}

Ev(type, arg) == [type |-> type, arg |-> arg]

Keys == {"Escape", "a"}

\* a continuation is queued: it runs before any further task
MicrotaskPending == \E i \in 1..Len(calls) : calls[i].pc \in Queued

\* the invocation has not finished and can still write the view state
InFlight(i) == calls[i].pc \in Awaiting \cup Queued \cup {"hung"}

\* -------------------------------------------------------- api.js
\* variant: the handler logs and throws the error again
Catch_Rethrow(c, cause) ==
  [c EXCEPT !.pc = "rejected", !.url = <<>>, !.cause = cause]

\* catch (err) { console.error(...); return []; }
Catch(c, cause) ==
  [c EXCEPT !.pc = "resolved", !.url = <<>>, !.cause = cause, !.data = EmptyArray]

\* return data.results || [];
Return(c, value) == [c EXCEPT !.pc = "resolved", !.data = value]

\* searchQuery up to its first await: the URL is built inside the try block
NewCall == [pc |-> "fetch", url |-> <<>>, cause |-> "none", data |-> Undefined]

SearchQueryStart(q) ==
  IF EncodeThrows(q) THEN Catch(NewCall, "URIError")
  ELSE [NewCall EXCEPT !.url = RequestUrl(q)]

\* the invocation is over: its locals are gone
Finished(pc) == [NewCall EXCEPT !.pc = pc]

\* await fetch(...) settles: it rejects (network failure) or yields a response
NetworkFailure == [kind |-> "reject", status |-> 0]
FetchOutcomes == {NetworkFailure} \cup [kind : {"response"}, status : Statuses]

\* variant: the status check sits outside the try block
AfterFetch_Uncaught(c, outcome) ==
  IF outcome = NetworkFailure THEN Catch(c, "network")
  ELSE IF ~Ok(outcome.status)
    THEN [c EXCEPT !.pc = "rejected", !.url = <<>>, !.cause = "status"]
  ELSE [c EXCEPT !.pc = "json", !.url = <<>>]

AfterFetch(c, outcome) ==
  IF outcome = NetworkFailure THEN Catch(c, "network")
  ELSE IF ~Ok(outcome.status) THEN Catch(c, "status")   \* throw new Error("Search failed")
  ELSE [c EXCEPT !.pc = "json", !.url = <<>>]

\* await res.json() settles; reading .results of null is a TypeError
AfterJson(c, body) ==
  IF body = ParseFailure THEN Catch(c, "parse")
  ELSE IF body.t = "null" THEN Catch(c, "TypeError")
  ELSE Return(c, IF Truthy(body.results) THEN body.results ELSE EmptyArray)

\* --------------------------------------------------------- App component
Init ==
  /\ query = <<>>
  /\ results = <<>>
  /\ loading = FALSE
  /\ hasSearched = FALSE
  /\ calls = <<>>
  /\ lastDone = 0
  /\ lastData = Undefined
  /\ event = Ev("mount", "")

\* onChange={(e) => setQuery(e.target.value)}
OnChange(value) ==
  /\ ~MicrotaskPending
  /\ query' = value
  /\ event' = Ev("change", "")
  /\ UNCHANGED <<results, loading, hasSearched, calls, lastDone, lastData>>

\* variant: Escape returns to the landing page
clear_ResetsSearch(key) ==
  /\ ~MicrotaskPending
  /\ query' = IF key = "Escape" THEN <<>> ELSE query
  /\ hasSearched' = IF key = "Escape" THEN FALSE ELSE hasSearched
  /\ event' = Ev("keydown", key)
  /\ UNCHANGED <<results, loading, calls, lastDone, lastData>>

\* variant: Escape clears the result list with the input
clear_ClearsResults(key) ==
  /\ ~MicrotaskPending
  /\ query' = IF key = "Escape" THEN <<>> ELSE query
  /\ results' = IF key = "Escape" THEN <<>> ELSE results
  /\ event' = Ev("keydown", key)
  /\ UNCHANGED <<loading, hasSearched, calls, lastDone, lastData>>

\* const clear = (e) => e.key === "Escape" && setQuery("");
clear(key) ==
  /\ ~MicrotaskPending
  /\ query' = IF key = "Escape" THEN <<>> ELSE query
  /\ event' = Ev("keydown", key)
  /\ UNCHANGED <<results, loading, hasSearched, calls, lastDone, lastData>>

\* variant: setHasSearched(true) is missing
handleSearch_NoHasSearched ==
  /\ ~MicrotaskPending
  /\ event' = Ev("submit", "")
  /\ IF IsBlank(query)
     THEN UNCHANGED <<query, results, loading, hasSearched, calls, lastDone, lastData>>
     ELSE /\ Len(calls) < MaxCalls
          /\ loading' = TRUE
          /\ calls' = Append(calls, SearchQueryStart(query))
          /\ UNCHANGED <<query, results, hasSearched, lastDone, lastData>>

\* handleSearch up to its await
handleSearch ==
  /\ ~MicrotaskPending
  /\ event' = Ev("submit", "")
  /\ IF IsBlank(query)
     THEN UNCHANGED <<query, results, loading, hasSearched, calls, lastDone, lastData>>
     ELSE /\ Len(calls) < MaxCalls
          /\ loading' = TRUE
          /\ hasSearched' = TRUE
          /\ calls' = Append(calls, SearchQueryStart(query))
          /\ UNCHANGED <<query, results, lastDone, lastData>>

\* the fetch promise of invocation i settles
FetchSettles(i, outcome) ==
  /\ ~MicrotaskPending
  /\ calls[i].pc = "fetch"
  /\ calls' = [calls EXCEPT ![i] = AfterFetch(@, outcome)]
  /\ event' = Ev("fetch", "")
  /\ UNCHANGED <<query, results, loading, hasSearched, lastDone, lastData>>

\* the res.json() promise of invocation i settles
JsonSettles(i, body) ==
  /\ ~MicrotaskPending
  /\ calls[i].pc = "json"
  /\ calls' = [calls EXCEPT ![i] = AfterJson(@, body)]
  /\ event' = Ev("json", "")
  /\ UNCHANGED <<query, results, loading, hasSearched, lastDone, lastData>>

\* variant: an empty answer keeps the list on screen
ArrayOrEmpty_KeepStale(data) ==
  IF IsArray(data) /\ data.v # <<>> THEN data.v ELSE results

\* Array.isArray(data) ? data : []
ArrayOrEmpty(data) == IF IsArray(data) THEN data.v ELSE <<>>

\* variant: only the invocation submitted last may write the results
Resume_LatestWins(i) ==
  /\ calls[i].pc \in Queued
  /\ event' = Ev("resume", "")
  /\ IF calls[i].pc = "resolved"
     THEN /\ results' = IF i = Len(calls) THEN ArrayOrEmpty(calls[i].data) ELSE results
          /\ loading' = FALSE
          /\ calls' = [calls EXCEPT ![i] = Finished("done")]
          /\ lastDone' = i
          /\ lastData' = calls[i].data
          /\ UNCHANGED <<query, hasSearched>>
     ELSE /\ calls' = [calls EXCEPT ![i] = Finished("aborted")]
          /\ UNCHANGED <<query, results, loading, hasSearched, lastDone, lastData>>

\* handleSearch from its await on: the await throws if searchQuery rejected,
\* otherwise setResults(Array.isArray(data) ? data : []); setLoading(false);
Resume(i) ==
  /\ calls[i].pc \in Queued
  /\ event' = Ev("resume", "")
  /\ IF calls[i].pc = "resolved"
     THEN /\ results' = ArrayOrEmpty(calls[i].data)
          /\ loading' = FALSE
          /\ calls' = [calls EXCEPT ![i] = Finished("done")]
          /\ lastDone' = i
          /\ lastData' = calls[i].data
          /\ UNCHANGED <<query, hasSearched>>
     ELSE /\ calls' = [calls EXCEPT ![i] = Finished("aborted")]
          /\ UNCHANGED <<query, results, loading, hasSearched, lastDone, lastData>>

\* no timeout: the request of invocation i never settles
Stall(i) ==
  /\ ~MicrotaskPending
  /\ calls[i].pc \in Awaiting
  /\ calls' = [calls EXCEPT ![i] = Finished("hung")]
  /\ event' = Ev("stall", "")
  /\ UNCHANGED <<query, results, loading, hasSearched, lastDone, lastData>>

Next ==
  \/ \E value \in Strings : OnChange(value)
  \/ \E key \in Keys : clear(key)
  \/ handleSearch
  \/ \E i \in 1..Len(calls), outcome \in FetchOutcomes : FetchSettles(i, outcome)
  \/ \E i \in 1..Len(calls), body \in BodyOutcomes : JsonSettles(i, body)
  \/ \E i \in 1..Len(calls) : Resume(i)
  \/ \E i \in 1..Len(calls) : Stall(i)

Spec == Init /\ [][Next]_vars

\* the event loop runs a queued continuation, and a request that is not hung
\* gets its answer
Settle ==
  \E i \in 1..Len(calls) :
    \/ \E outcome \in FetchOutcomes : FetchSettles(i, outcome)
    \/ \E body \in BodyOutcomes : JsonSettles(i, body)
    \/ Resume(i)

LiveSpec == Spec /\ WF_vars(Settle)

\* ------------------------------------------------------ render conditions
\* {loading && ( <ul> skeleton rows )}
Skeleton == loading

\* variant: the message does not wait for loading to end
EmptyState_NoLoadingGuard == hasSearched /\ Len(results) = 0

\* {!loading && hasSearched && results.length === 0 && ( No results yet )}
EmptyState == ~loading /\ hasSearched /\ Len(results) = 0

\* {!loading && results.length > 0 && ( <ul> result rows )}
ResultList == ~loading /\ Len(results) > 0

Rendered ==
  {n \in {"skeleton", "empty", "list"} :
     \/ n = "skeleton" /\ Skeleton
     \/ n = "empty" /\ EmptyState
     \/ n = "list" /\ ResultList}

TypeOK ==
  /\ query \in Strings
  /\ results \in {a.v : a \in Arrays}
  /\ loading \in BOOLEAN
  /\ hasSearched \in BOOLEAN
  /\ Len(calls) <= MaxCalls
  /\ lastDone \in 0..Len(calls)
  /\ \A i \in 1..Len(calls) : calls[i].cause \in Causes
  /\ event.type \in {"mount", "change", "keydown", "submit", "fetch", "json", "resume", "stall"}

\* ================================================================ claims
Calls == 1..Len(calls)
NoneInFlight == \A i \in Calls : ~InFlight(i)
AnyHung == \E i \in Calls : calls[i].pc = "hung"

\* C1: searchQuery never rejects or throws; after a network failure, a
\* non-2xx status, a body that does not parse (and any other exception in the
\* try block) its promise resolves with the empty list.
C1_FailuresResolveEmpty ==
  \A i \in Calls :
    /\ calls[i].pc \notin {"rejected", "aborted"}
    /\ (calls[i].pc = "resolved" /\ calls[i].cause # "none")
         => calls[i].data = EmptyArray

C1_Witness ==
  \E i \in Calls :
    /\ calls[i].pc = "resolved"
    /\ calls[i].cause = "status"
    /\ calls[i].data = EmptyArray

\* C2: a submission while the query is empty or whitespace only changes none
\* of query, results, loading, hasSearched and issues no request.
WhitespaceOnly(s) == \A i \in 1..Len(s) : s[i] \in Whitespace

C2_BlankSubmitNoOp ==
  [][(event'.type = "submit" /\ WhitespaceOnly(query))
       => UNCHANGED <<query, results, loading, hasSearched, calls>>]_vars

C2_Witness ==
  /\ event.type = "submit"
  /\ query = <<" ", " ">>
  /\ ~loading
  /\ ~hasSearched
  /\ calls = <<>>

\* C3: never are loading and hasSearched both false while results is
\* non-empty.
C3_ResultsOnlyAfterSearch ==
  ~(~loading /\ ~hasSearched /\ Len(results) > 0)

C3_Witness == ~loading /\ hasSearched /\ Len(results) > 0

\* C4: once hasSearched is true it stays true.
C4_HasSearchedMonotonic == [][hasSearched => hasSearched']_vars

C4_Witness ==
  /\ hasSearched
  /\ event = Ev("keydown", "Escape")
  /\ query = <<>>
  /\ NoneInFlight

\* C5: Escape sets query to the empty string and leaves results, hasSearched
\* and loading as they are, so a rendered result list stays rendered.
C5_EscapeClearsOnlyQuery ==
  [][event' = Ev("keydown", "Escape")
       => /\ query' = <<>>
          /\ UNCHANGED <<results, hasSearched, loading>>
          /\ ResultList' = ResultList]_vars

C5_Witness ==
  /\ event = Ev("keydown", "Escape")
  /\ query = <<>>
  /\ Len(results) > 0
  /\ loading
  /\ \E i \in Calls : calls[i].pc \in Awaiting

\* C6: at most one of skeleton, empty-state message and result list is
\* rendered; none while hasSearched is false, exactly one once it is true.
C6_VisualStatesExclusive ==
  /\ Cardinality(Rendered) <= 1
  /\ ~hasSearched => Rendered = {}
  /\ hasSearched => Cardinality(Rendered) = 1

C6_Witness == hasSearched /\ loading /\ Len(results) > 0 /\ Rendered = {"skeleton"}

\* C7: when an invocation resumes with a failure or an empty list, the next
\* state has loading false and results empty: the empty-state message is
\* rendered, not the skeleton and not a result list.
C7_EmptyAfterFailure ==
  [][\A i \in Calls :
       ( /\ calls[i].pc = "resolved"
         /\ calls'[i].pc = "done"
         /\ (calls[i].cause # "none" \/ calls[i].data = EmptyArray) )
       => /\ ~loading'
          /\ results' = <<>>
          /\ Rendered' = {"empty"}]_vars

C7_Witness ==
  /\ event.type = "resume"
  /\ lastDone = 2
  /\ calls[1].pc = "done"
  /\ lastData = EmptyArray
  /\ Rendered = {"empty"}

\* C8: a submission leaves the invocations already in flight as they are, and
\* the results are those of the invocation that resumed last, whichever was
\* submitted last.
C8_LastResolvedWins ==
  /\ [](lastDone # 0 => results = ArrayOrEmpty(lastData))
  /\ [][event'.type = "submit"
          => /\ Len(calls') >= Len(calls)
             /\ \A i \in Calls : calls'[i] = calls[i]]_vars

C8_Witness ==
  /\ Len(calls) = 2
  /\ calls[1].pc = "done"
  /\ calls[2].pc = "done"
  /\ lastDone = 1
  /\ results = <<"A">>

\* C9: while a request is hung, loading is true, whatever else happens.
C9_HungKeepsLoading == AnyHung => loading

\* C10: with no invocation in flight loading is false; and when no request
\* hangs, loading leads to not loading.
C10_LoadingNotStuck ==
  /\ [](NoneInFlight => ~loading)
  /\ ([]~AnyHung => (loading ~> ~loading))

C10_Witness ==
  /\ Len(calls) = 2
  /\ NoneInFlight
  /\ ~AnyHung
  /\ ~loading
  /\ event.type = "resume"

====
